---- MODULE Spec2Model ----
(***************************************************************************)
(* Slack User Exporter (src/main.js): channel members are listed page by   *)
(* page, each member's detail is fetched and its display name parsed, the  *)
(* parsed users are merged with the rows of the "users" sheet and the      *)
(* merged list is written back.                                            *)
(*                                                                         *)
(* JavaScript strings are modelled as tuples of one-character strings, so  *)
(* that String.prototype.split is computed character by character.         *)
(* Undefined and Null are the JavaScript values undefined and null.        *)
(***************************************************************************)
EXTENDS Integers, Sequences, FiniteSets, TLC

VARIABLES
    properties,     \* the script properties (PropertiesService)
    sheet,          \* rows of the "users" sheet, header first; <<>> when empty
    pc,             \* position of main()
    error,          \* the error main() rethrows, "none" while none
    requests,       \* cursor parameter of each request of the listing call
    responses,      \* the responses to them (both kept until the call returns)
    members,        \* listUsersInChannel: const members
    nextCursor,     \* listUsersInChannel: let nextCursor
    userIds,        \* fetchAndParseUsers: const userIds
    details,        \* the users.info responses so far, one per identifier
    users,          \* fetchAndParseUsers: const users
    errors,         \* fetchAndParseUsers: const errors
    existingUsers,  \* mergeAndUpdateUsers: const existingUsers
    mergedUsers,    \* mergeAndUpdateUsers: const mergedUsers
    finalUsers,     \* main: const finalUsers, the value returned
    sheet0,         \* the sheet when the current run started
    reads,          \* getDataRange().getValues() calls of the current run
    clears,         \* sheet.clear() calls of the current run
    run,            \* number of runs started
    completed,      \* number of runs that returned
    prev,           \* whether the run before returned, and the users it parsed
    slackUser,      \* argument of User.parseFromSlackUser (parser runs)
    parsed,         \* its outcome (parser runs)
    usersArg,       \* argument of writeUsersToSheet (store runs)
    readBack,       \* result of readUsersFromSheet (store runs)
    storeError,     \* the error a store run raised, "none" while none
    dataArg,        \* argument of validateData and writeMapToSheet (data runs)
    shapeError,     \* the error validateData raised, "none" when it returned
    sheetWas,       \* the sheet before the call of a data run
    spc             \* position of a parser or store run

vars == <<properties, sheet, pc, error, requests, responses, members,
          nextCursor, userIds, details, users, errors, existingUsers,
          mergedUsers, finalUsers, sheet0, reads, clears, run, completed,
          prev, slackUser, parsed, usersArg, readBack, storeError, dataArg,
          shapeError, sheetWas, spc>>

pipelineVars == <<properties, pc, error, requests, responses, members,
                  nextCursor, userIds, details, users, errors, existingUsers,
                  mergedUsers, finalUsers, sheet0, reads, clears, run,
                  completed, prev>>

----------------------------------------------------------------------------
(* Bounds of the model.                                                    *)

MaxLen == 4        \* longest display name of a parser run
MaxPages == 3      \* most conversations.members requests of one listing
MaxIds == 2        \* most identifiers one listing returns
MaxRows == 2       \* most data rows of the sheet before the first run
MaxRuns == 2       \* most runs of main()
MaxUsers == 2      \* longest argument of a store run
MaxData == 2       \* longest argument of a data run

----------------------------------------------------------------------------
(* JavaScript values.                                                      *)

Undefined == <<"undefined">>
Null == <<"null">>
Empty == <<>>

\* !v for the values the program tests
Falsy(v) == v \in {Undefined, Null, Empty}

Space == " "
Tab == "\t"
Chars == {"a", "b", Space, Tab}
Whitespace == {Space, Tab}

\* all strings of at most n characters
StringsUpTo(n) == UNION {[1..k -> Chars] : k \in 0..n}

U1 == <<"U", "1">>
U2 == <<"U", "2">>
Ids == {U1, U2}

\* main() has not been called (parser and store runs)
PipelineIdle ==
    /\ properties = [p \in {"SLACK_API_TOKEN", "SLACK_CHANNEL_ID", "SPREAD_SHEET_ID"} |-> Null]
    /\ pc = "Idle"
    /\ error = [kind |-> "none", detail |-> "none"]
    /\ requests = <<>> /\ responses = <<>> /\ members = <<>>
    /\ nextCursor = Undefined
    /\ userIds = <<>> /\ details = <<>> /\ users = <<>> /\ errors = <<>>
    /\ existingUsers = <<>> /\ mergedUsers = <<>> /\ finalUsers = <<>>
    /\ sheet0 = <<>>
    /\ reads = 0 /\ clears = 0 /\ run = 0 /\ completed = 0
    /\ prev = [done |-> FALSE, users |-> <<>>]

----------------------------------------------------------------------------
(* User (src/main.js 258-306).                                             *)

NewUser(userId, id, name) == [userId |-> userId, name |-> [id |-> id, name |-> name]]

NoUser == NewUser(Undefined, Undefined, Undefined)

\* position of the first space of s, 0 when it has none
IndexOfSpace(s) ==
    IF \E i \in 1..Len(s) : s[i] = Space
    THEN CHOOSE i \in 1..Len(s) : s[i] = Space /\ \A j \in 1..(i - 1) : s[j] # Space
    ELSE 0

RECURSIVE Split(_)
\* displayName.split(" ")
Split(s) ==
    LET k == IndexOfSpace(s)
    IN  IF k = 0 THEN <<s>>
        ELSE <<SubSeq(s, 1, k - 1)>> \o Split(SubSeq(s, k + 1, Len(s)))

\* element i of an array, undefined past its end
At(arr, i) == IF i <= Len(arr) THEN arr[i] ELSE Undefined

Thrown(e) == [ok |-> FALSE, error |-> e, user |-> NoUser]
Returned(u) == [ok |-> TRUE, error |-> "none", user |-> u]

\* A users.info user object: defined says whether there is an object at all,
\* hasProfile whether it has a profile, display_name is profile.display_name.
SlackUserObject(id, displayName) ==
    [defined |-> TRUE, id |-> id, hasProfile |-> TRUE, display_name |-> displayName]

\* parseFromSlackUser with the two tokens assigned the wrong way round
ParseSwapped(user) ==
    IF ~user.defined \/ ~user.hasProfile THEN Thrown("Invalid user object provided")
    ELSE LET displayName == user.display_name
         IN  IF Falsy(displayName) THEN Thrown("displayName is not found")
             ELSE LET parts == Split(displayName)
                      id == At(parts, 1)
                      name == At(parts, 2)
                      others == SubSeq(parts, 3, Len(parts))
                  IN  IF Falsy(id) \/ Falsy(name) \/ Len(others) > 0
                      THEN Thrown("Invalid display name format")
                      ELSE Returned(NewUser(user.id, name, id))

\* parseFromSlackUser without the check of the remaining tokens
ParseIgnoringOthers(user) ==
    IF ~user.defined \/ ~user.hasProfile THEN Thrown("Invalid user object provided")
    ELSE LET displayName == user.display_name
         IN  IF Falsy(displayName) THEN Thrown("displayName is not found")
             ELSE LET parts == Split(displayName)
                      id == At(parts, 1)
                      name == At(parts, 2)
                  IN  IF Falsy(id) \/ Falsy(name)
                      THEN Thrown("Invalid display name format")
                      ELSE Returned(NewUser(user.id, id, name))

ParseFromSlackUser(user) ==
    IF ~user.defined \/ ~user.hasProfile THEN Thrown("Invalid user object provided")
    ELSE LET displayName == user.display_name
         IN  IF Falsy(displayName) THEN Thrown("displayName is not found")
             ELSE LET parts == Split(displayName)
                      id == At(parts, 1)
                      name == At(parts, 2)
                      others == SubSeq(parts, 3, Len(parts))
                  IN  IF Falsy(id) \/ Falsy(name) \/ Len(others) > 0
                      THEN Thrown("Invalid display name format")
                      ELSE Returned(NewUser(user.id, id, name))

----------------------------------------------------------------------------
(* The sheet, as the Apps Script calls of SpreadSheetApi use it.           *)

\* sheet.clear()
Clear(sh) == <<>>

\* sheet.appendRow(row)
AppendRow(sh, row) == Append(sh, row)

\* sheet.getRange(startRow, 1, Len(values), width).setValues(values)
SetValues(sh, startRow, values) ==
    LET last == startRow + Len(values) - 1
        n == IF Len(sh) > last THEN Len(sh) ELSE last
    IN  [r \in 1..n |->
            IF r >= startRow /\ r <= last THEN values[r - startRow + 1]
            ELSE IF r <= Len(sh) THEN sh[r]
            ELSE <<>>]

\* sheet.getDataRange().getValues(): an empty sheet gives one row of one
\* empty cell
GetValues(sh) == IF sh = <<>> THEN <<<<Empty>>>> ELSE sh

----------------------------------------------------------------------------
(* SpreadSheetApi (src/main.js 139-252).                                   *)

\* outcome of a write: the error thrown ("none" on return), the sheet
\* afterwards and the number of sheet.clear() calls made
StoreThrown(e, sh) == [ok |-> FALSE, error |-> e, sheet |-> sh, clears |-> 0]
StoreReturned(sh) == [ok |-> TRUE, error |-> "none", sheet |-> sh, clears |-> 1]

\* An element of the data argument: an array of cells, or a value that is
\* not an array (Array.isArray is false of it).
Row(cells) == [isArray |-> TRUE, cells |-> cells]
NotARow == [isArray |-> FALSE, cells |-> <<>>]

\* the arrays of cells of data, as setValues takes them
Cells(data) == [i \in 1..Len(data) |-> data[i].cells]

\* validateData(data): the error it throws, "none" when it returns.
\* data[0].length of an empty array throws a TypeError.
ValidateData(data) ==
    IF \E i \in 1..Len(data) : ~data[i].isArray THEN "Data must be a 2D array"
    ELSE IF Len(data) = 0 THEN "TypeError"
    ELSE IF \E i \in 1..Len(data) : Len(data[i].cells) # Len(data[1].cells)
         THEN "All rows must have the same length"
         ELSE "none"

\* writeMapToSheet clearing the sheet before it validates
WriteMapClearingFirst(data, sh) ==
    LET cleared == Clear(sh)
    IN  IF ValidateData(data) # "none" THEN StoreThrown(ValidateData(data), cleared)
        ELSE IF Len(data) = 0 THEN StoreReturned(cleared)
        ELSE LET withHeader == AppendRow(cleared, data[1].cells)
             IN  IF Len(data) > 1
                 THEN StoreReturned(SetValues(withHeader, 2, Cells(SubSeq(data, 2, Len(data)))))
                 ELSE StoreReturned(withHeader)

\* writeMapToSheet(data, "users") on the sheet sh
WriteMapToSheet(data, sh) ==
    IF ValidateData(data) # "none" THEN StoreThrown(ValidateData(data), sh)
    ELSE LET cleared == Clear(sh)
         IN  IF Len(data) = 0 THEN StoreReturned(cleared)
             ELSE LET withHeader == AppendRow(cleared, data[1].cells)
                  IN  IF Len(data) > 1
                      THEN StoreReturned(SetValues(withHeader, 2, Cells(SubSeq(data, 2, Len(data)))))
                      ELSE StoreReturned(withHeader)

HeaderRow == <<<<"u", "s", "e", "r", "I", "d">>, <<"i", "d">>, <<"n", "a", "m", "e">>>>

\* the guard of writeUsersToSheet's loop without the test of name.name
InvalidUserIgnoringName(user) == Falsy(user.userId) \/ Falsy(user.name.id)

\* the guard of writeUsersToSheet's loop
InvalidUser(user) == Falsy(user.userId) \/ Falsy(user.name.id) \/ Falsy(user.name.name)

\* the row pushed without the name column
RowOfUserShort(user) == <<user.userId, user.name.id>>

RowOfUser(user) == <<user.userId, user.name.id, user.name.name>>

RECURSIVE UserRows(_)
\* the rows writeUsersToSheet pushes after the header
UserRows(us) ==
    IF us = <<>> THEN <<>>
    ELSE IF InvalidUser(Head(us)) THEN UserRows(Tail(us))
         ELSE <<RowOfUser(Head(us))>> \o UserRows(Tail(us))

\* the rows array writeUsersToSheet hands to writeMapToSheet
UsersData(us) ==
    <<Row(HeaderRow)>> \o [i \in 1..Len(UserRows(us)) |-> Row(UserRows(us)[i])]

\* writeUsersToSheet(users) on the sheet sh
WriteUsersToSheet(us, sh) == WriteMapToSheet(UsersData(us), sh)

\* readUsersFromSheet() without the slice that skips the header row
ReadUsersKeepingHeader(sh) ==
    LET rows == GetValues(sh)
    IN  IF Len(rows) <= 1 THEN <<>>
        ELSE [i \in 1..Len(rows) |->
                NewUser(At(rows[i], 1), At(rows[i], 2), At(rows[i], 3))]

\* readUsersFromSheet() on the sheet sh
ReadUsersFromSheet(sh) ==
    LET rows == GetValues(sh)
    IN  IF Len(rows) <= 1 THEN <<>>
        ELSE [i \in 1..(Len(rows) - 1) |->
                NewUser(At(rows[i + 1], 1), At(rows[i + 1], 2), At(rows[i + 1], 3))]

----------------------------------------------------------------------------
(* What the "users" sheet may hold before the first run: nothing, or the   *)
(* header and data rows left by earlier runs or edited by hand (cells may  *)
(* be empty and an identifier may occur in more than one row).             *)

A == <<"a">>
B == <<"b">>

StoredRows == {<<U1, A, B>>, <<U1, B, A>>, <<U2, A, B>>, <<U2, Empty, B>>}

SeqsUpTo(S, n) == UNION {[1..k -> S] : k \in 0..n}

InitialSheets == {<<>>} \cup {<<HeaderRow>> \o rows : rows \in SeqsUpTo(StoredRows, MaxRows)}

----------------------------------------------------------------------------
(* Store runs: writeUsersToSheet(usersArg), then readUsersFromSheet().     *)

UserObjects ==
    {NewUser(u, i, n) : u \in Ids, i \in {A, B}, n \in {A, B}}
    \cup {NewUser(Empty, A, B), NewUser(U1, Empty, B), NewUser(U1, A, Undefined)}

InitStore ==
    /\ PipelineIdle
    /\ sheet \in InitialSheets
    /\ slackUser = SlackUserObject(U1, Undefined)
    /\ parsed = Thrown("none")
    /\ usersArg \in SeqsUpTo(UserObjects, MaxUsers)
    /\ readBack = <<>>
    /\ storeError = "none"
    /\ dataArg = <<>> /\ shapeError = "none" /\ sheetWas = <<>>
    /\ spc = "write"

StoreWrite ==
    /\ spc = "write"
    /\ LET w == WriteUsersToSheet(usersArg, sheet)
       IN  /\ sheet' = w.sheet
           /\ storeError' = w.error
           /\ spc' = IF w.ok THEN "read" ELSE "failed"
    /\ UNCHANGED <<pipelineVars, slackUser, parsed, usersArg, readBack, dataArg,
                   shapeError, sheetWas>>

StoreRead ==
    /\ spc = "read"
    /\ readBack' = ReadUsersFromSheet(sheet)
    /\ spc' = "done"
    /\ UNCHANGED <<pipelineVars, sheet, slackUser, parsed, usersArg, storeError,
                   dataArg, shapeError, sheetWas>>

NextStore == StoreWrite \/ StoreRead

SpecStore == InitStore /\ [][NextStore]_vars

----------------------------------------------------------------------------
(* Data runs: validateData(dataArg), then writeMapToSheet(dataArg).        *)

\* the elements data may hold: rows of one or two cells, and a value that
\* is not an array
DataElements ==
    {Row(<<c>>) : c \in {A, B}} \cup {Row(<<c, d>>) : c \in {A, B}, d \in {A, B}}
    \cup {NotARow}

InitData ==
    /\ PipelineIdle
    /\ sheet \in InitialSheets
    /\ sheetWas = sheet
    /\ slackUser = SlackUserObject(U1, Undefined)
    /\ parsed = Thrown("none")
    /\ usersArg = <<>> /\ readBack = <<>>
    /\ storeError = "none"
    /\ dataArg \in SeqsUpTo(DataElements, MaxData)
    /\ shapeError = "none"
    /\ spc = "validate"

DataValidate ==
    /\ spc = "validate"
    /\ shapeError' = ValidateData(dataArg)
    /\ spc' = "write"
    /\ UNCHANGED <<pipelineVars, sheet, slackUser, parsed, usersArg, readBack,
                   storeError, dataArg, sheetWas>>

DataWrite ==
    /\ spc = "write"
    /\ LET w == WriteMapToSheet(dataArg, sheet)
       IN  /\ sheet' = w.sheet
           /\ storeError' = w.error
           /\ spc' = IF w.ok THEN "written" ELSE "failed"
    /\ UNCHANGED <<pipelineVars, slackUser, parsed, usersArg, readBack, dataArg,
                   shapeError, sheetWas>>

NextData == DataValidate \/ DataWrite

SpecData == InitData /\ [][NextData]_vars

----------------------------------------------------------------------------
(* SlackApi (src/main.js 21-133).                                          *)

\* the cursor the source hands out with page k
Cursor(k) == <<"c", k>>

\* what response_metadata?.next_cursor may evaluate to for page k: no
\* response_metadata, an empty next_cursor, or the cursor of the next page
NextCursors(k) == {Undefined, Empty, Cursor(k)}

ListFailed == [ok |-> FALSE, members |-> <<>>, next_cursor |-> Undefined]

\* the conversations.members responses request() may receive when the
\* listing has n identifiers so far and this is request number k
ListResponses(n, k) ==
    {ListFailed} \cup
    {[ok |-> TRUE, members |-> m, next_cursor |-> c] :
        m \in SeqsUpTo(Ids, MaxIds - n),
        c \in IF k < MaxPages THEN NextCursors(k) ELSE {Undefined, Empty}}

\* the cursor parameter of the next request, undefined when it has none
CursorParamDropped(cursor) == Undefined

CursorParam(cursor) == IF Falsy(cursor) THEN Undefined ELSE cursor

InfoFailed(userId) ==
    [userId |-> userId, ok |-> FALSE, user |-> SlackUserObject(Undefined, Undefined)]

DisplayNames == {<<"a", Space, "b">>, <<"b", Space, "a">>, <<"a">>}

\* the users.info responses request() may receive for userId
InfoResponses(userId) ==
    {InfoFailed(userId)} \cup
    {[userId |-> userId, ok |-> TRUE, user |-> SlackUserObject(userId, d)] :
        d \in DisplayNames}

\* userInfo(userId) followed by User.parseFromSlackUser, for the response resp
UserInfoAndParse(userId, resp) ==
    IF Falsy(userId) THEN Thrown("userId must be a string which is NOT empty")
    ELSE IF ~resp.ok THEN Thrown("Slack API Error")
    ELSE ParseFromSlackUser(resp.user)

----------------------------------------------------------------------------
(* mergeAndUpdateUsers (src/main.js 347-361).                              *)

\* acc.set(user.userId, user) on a Map kept as the sequence of its entries
\* in insertion order
MapSet(acc, user) ==
    IF \E i \in 1..Len(acc) : acc[i].userId = user.userId
    THEN [i \in 1..Len(acc) |-> IF acc[i].userId = user.userId THEN user ELSE acc[i]]
    ELSE Append(acc, user)

RECURSIVE Reduce(_, _)
\* list.reduce((acc, user) => acc.set(user.userId, user), acc)
Reduce(list, acc) ==
    IF list = <<>> THEN acc ELSE Reduce(Tail(list), MapSet(acc, Head(list)))

\* the merge keeping only the new users
MergeOnlyNew(existing, new) == Reduce(new, <<>>)

\* the merge applying the existing rows after the new users
MergeExistingLast(existing, new) == Reduce(new \o existing, <<>>)

\* the merge without the Map
MergeConcat(existing, new) == existing \o new

\* the merge with the Map built from the existing rows only
MergeAppendNew(existing, new) == Reduce(existing, <<>>) \o new

\* Array.from(uniqueUsers.values())
MergeUsers(existing, new) == Reduce(existing \o new, <<>>)

----------------------------------------------------------------------------
(* main (src/main.js 369-404) and fetchAndParseUsers (314-339).            *)

RequiredProps == <<"SLACK_API_TOKEN", "SLACK_CHANNEL_ID", "SPREAD_SHEET_ID">>

PropValues == {Null, Empty, <<"x">>}

NoError == [kind |-> "none", detail |-> "none"]
ConfigError(prop) == [kind |-> "config", detail |-> prop]
SlackError == [kind |-> "slack", detail |-> "conversations.members"]
SheetError(e) == [kind |-> "sheet", detail |-> e]

\* the loop over requiredProps reporting the last missing property
LastMissing(props) ==
    IF \A i \in 1..Len(RequiredProps) : ~Falsy(props[RequiredProps[i]]) THEN 0
    ELSE CHOOSE i \in 1..Len(RequiredProps) :
            /\ Falsy(props[RequiredProps[i]])
            /\ \A j \in (i + 1)..Len(RequiredProps) : ~Falsy(props[RequiredProps[j]])

\* the loop over requiredProps: the index of the property it throws for, 0
\* when it throws for none
FirstMissing(props) ==
    IF \A i \in 1..Len(RequiredProps) : ~Falsy(props[RequiredProps[i]]) THEN 0
    ELSE CHOOSE i \in 1..Len(RequiredProps) :
            /\ Falsy(props[RequiredProps[i]])
            /\ \A j \in 1..(i - 1) : ~Falsy(props[RequiredProps[j]])

Init ==
    /\ properties \in [{"SLACK_API_TOKEN", "SLACK_CHANNEL_ID", "SPREAD_SHEET_ID"} -> PropValues]
    /\ sheet \in InitialSheets
    /\ sheet0 = sheet
    /\ pc = "Init"
    /\ error = NoError
    /\ requests = <<>> /\ responses = <<>> /\ members = <<>>
    /\ nextCursor = Undefined
    /\ userIds = <<>> /\ details = <<>> /\ users = <<>> /\ errors = <<>>
    /\ existingUsers = <<>> /\ mergedUsers = <<>> /\ finalUsers = <<>>
    /\ reads = 0 /\ clears = 0
    /\ run = 1 /\ completed = 0
    /\ prev = [done |-> FALSE, users |-> <<>>]
    /\ slackUser = SlackUserObject(U1, Undefined)
    /\ parsed = Thrown("none")
    /\ usersArg = <<>> /\ readBack = <<>>
    /\ storeError = "none"
    /\ dataArg = <<>> /\ shapeError = "none" /\ sheetWas = <<>>
    /\ spc = "idle"

\* what no step of a run changes: the record of the run before and the
\* variables of the parser, store and data runs
harnessVars == <<prev, slackUser, parsed, usersArg, readBack, storeError, dataArg,
                 shapeError, sheetWas, spc>>

\* main: the check of the required properties and the two constructors
CheckProperties ==
    /\ pc = "Init"
    /\ LET m == FirstMissing(properties)
       IN  IF m # 0
           THEN /\ pc' = "Failed"
                /\ error' = ConfigError(RequiredProps[m])
           ELSE /\ pc' = "Listing"
                /\ UNCHANGED error
    /\ UNCHANGED <<properties, sheet, requests, responses, members, nextCursor,
                   userIds, details, users, errors, existingUsers, mergedUsers,
                   finalUsers, sheet0, reads, clears, run, completed, harnessVars>>

\* listUsersInChannel with a failed page taken as the end of the listing
ListPageSwallowing ==
    /\ pc = "Listing"
    /\ \E resp \in ListResponses(Len(members), Len(requests) + 1) :
        /\ requests' = Append(requests, CursorParam(nextCursor))
        /\ responses' = Append(responses, resp)
        /\ members' = members \o resp.members
        /\ nextCursor' = resp.next_cursor
        /\ pc' = IF ~resp.ok \/ Falsy(resp.next_cursor) THEN "Listed" ELSE "Listing"
    /\ UNCHANGED <<properties, sheet, error, userIds, details, users, errors, existingUsers,
                   mergedUsers, finalUsers, sheet0, reads, clears, run, completed,
                   harnessVars>>

\* listUsersInChannel with a loop that has no exit: after a page without
\* a cursor the listing starts over
ListPageLooping ==
    /\ pc = "Listing"
    /\ \E resp \in ListResponses(Len(members), Len(requests) + 1) :
        IF ~resp.ok
        THEN /\ requests' = Append(requests, CursorParam(nextCursor))
             /\ responses' = Append(responses, resp)
             /\ pc' = "Failed"
             /\ error' = SlackError
             /\ UNCHANGED <<members, nextCursor>>
        ELSE IF Falsy(resp.next_cursor)
        THEN /\ requests' = <<>> /\ responses' = <<>> /\ members' = <<>>
             /\ nextCursor' = Undefined
             /\ UNCHANGED <<pc, error>>
        ELSE /\ requests' = Append(requests, CursorParam(nextCursor))
             /\ responses' = Append(responses, resp)
             /\ members' = members \o resp.members
             /\ nextCursor' = resp.next_cursor
             /\ UNCHANGED <<pc, error>>
    /\ UNCHANGED <<properties, sheet, userIds, details, users, errors, existingUsers,
                   mergedUsers, finalUsers, sheet0, reads, clears, run, completed,
                   harnessVars>>

\* listUsersInChannel: one turn of the do-while loop, one request. A failed
\* response throws out of fetchAndParseUsers into the catch of main.
ListPage ==
    /\ pc = "Listing"
    /\ \E resp \in ListResponses(Len(members), Len(requests) + 1) :
        /\ requests' = Append(requests, CursorParam(nextCursor))
        /\ responses' = Append(responses, resp)
        /\ IF ~resp.ok
           THEN /\ pc' = "Failed"
                /\ error' = SlackError
                /\ UNCHANGED <<members, nextCursor>>
           ELSE /\ members' = members \o resp.members
                /\ nextCursor' = resp.next_cursor
                /\ UNCHANGED error
                /\ pc' = IF Falsy(resp.next_cursor) THEN "Listed" ELSE "Listing"
    /\ UNCHANGED <<properties, sheet, userIds, details, users, errors, existingUsers,
                   mergedUsers, finalUsers, sheet0, reads, clears, run, completed,
                   harnessVars>>

\* listUsersInChannel returns members to fetchAndParseUsers
ReturnMembers ==
    /\ pc = "Listed"
    /\ userIds' = members
    /\ requests' = <<>> /\ responses' = <<>>
    /\ nextCursor' = Undefined
    /\ pc' = "Fetching"
    /\ UNCHANGED <<properties, sheet, error, members, details, users, errors,
                   existingUsers, mergedUsers, finalUsers, sheet0, reads, clears,
                   run, completed, harnessVars>>

\* fetchAndParseUsers: the loop without its try/catch, an error of one
\* identifier thrown on into the catch of main
FetchUserRethrowing ==
    /\ pc = "Fetching"
    /\ Len(details) < Len(userIds)
    /\ LET userId == userIds[Len(details) + 1]
       IN  \E resp \in InfoResponses(userId) :
            LET r == UserInfoAndParse(userId, resp)
            IN  /\ details' = Append(details, resp)
                /\ IF r.ok
                   THEN users' = Append(users, r.user) /\ UNCHANGED <<pc, error>>
                   ELSE /\ pc' = "Failed"
                        /\ error' = [kind |-> "user", detail |-> r.error]
                        /\ UNCHANGED users
    /\ UNCHANGED <<properties, sheet, requests, responses, members, nextCursor,
                   userIds, errors, existingUsers, mergedUsers, finalUsers, sheet0,
                   reads, clears, run, completed, harnessVars>>

\* fetchAndParseUsers: one turn of the loop over userIds
FetchUser ==
    /\ pc = "Fetching"
    /\ Len(details) < Len(userIds)
    /\ LET userId == userIds[Len(details) + 1]
       IN  \E resp \in InfoResponses(userId) :
            LET r == UserInfoAndParse(userId, resp)
            IN  /\ details' = Append(details, resp)
                /\ IF r.ok
                   THEN users' = Append(users, r.user) /\ UNCHANGED errors
                   ELSE /\ errors' = Append(errors, [userId |-> userId, error |-> r.error])
                        /\ UNCHANGED users
    /\ UNCHANGED <<properties, sheet, pc, error, requests, responses, members,
                   nextCursor, userIds, existingUsers, mergedUsers, finalUsers,
                   sheet0, reads, clears, run, completed, harnessVars>>

\* mergeAndUpdateUsers started without awaiting the end of the loop over
\* userIds
ReadExistingEarly ==
    /\ pc = "Fetching"
    /\ existingUsers' = ReadUsersFromSheet(sheet)
    /\ reads' = reads + 1
    /\ pc' = "Merging"
    /\ UNCHANGED <<properties, sheet, error, requests, responses, members,
                   nextCursor, userIds, details, users, errors, mergedUsers,
                   finalUsers, sheet0, clears, run, completed, harnessVars>>

\* fetchAndParseUsers returns; mergeAndUpdateUsers reads the sheet
ReadExisting ==
    /\ pc = "Fetching"
    /\ Len(details) = Len(userIds)
    /\ existingUsers' = ReadUsersFromSheet(sheet)
    /\ reads' = reads + 1
    /\ pc' = "Merging"
    /\ UNCHANGED <<properties, sheet, error, requests, responses, members,
                   nextCursor, userIds, details, users, errors, mergedUsers,
                   finalUsers, sheet0, clears, run, completed, harnessVars>>

\* mergeAndUpdateUsers: the reduce into the Map and Array.from
Merge ==
    /\ pc = "Merging"
    /\ mergedUsers' = MergeUsers(existingUsers, users)
    /\ pc' = "Writing"
    /\ UNCHANGED <<properties, sheet, error, requests, responses, members,
                   nextCursor, userIds, details, users, errors, existingUsers,
                   finalUsers, sheet0, reads, clears, run, completed, harnessVars>>

\* mergeAndUpdateUsers returning the users of this run in place of the
\* merged list
WriteAndReturnParsed ==
    /\ pc = "Writing"
    /\ LET w == WriteUsersToSheet(mergedUsers, sheet)
       IN  /\ sheet' = w.sheet
           /\ clears' = clears + w.clears
           /\ IF w.ok
              THEN /\ finalUsers' = users
                   /\ pc' = "Done"
                   /\ completed' = completed + 1
                   /\ UNCHANGED error
              ELSE /\ pc' = "Failed"
                   /\ error' = SheetError(w.error)
                   /\ UNCHANGED <<finalUsers, completed>>
    /\ UNCHANGED <<properties, requests, responses, members, nextCursor, userIds,
                   details, users, errors, existingUsers, mergedUsers, sheet0,
                   reads, run, harnessVars>>

\* mergeAndUpdateUsers: writeUsersToSheet(mergedUsers) and the return of
\* mergedUsers through main
WriteAndReturn ==
    /\ pc = "Writing"
    /\ LET w == WriteUsersToSheet(mergedUsers, sheet)
       IN  /\ sheet' = w.sheet
           /\ clears' = clears + w.clears
           /\ IF w.ok
              THEN /\ finalUsers' = mergedUsers
                   /\ pc' = "Done"
                   /\ completed' = completed + 1
                   /\ UNCHANGED error
              ELSE /\ pc' = "Failed"
                   /\ error' = SheetError(w.error)
                   /\ UNCHANGED <<finalUsers, completed>>
    /\ UNCHANGED <<properties, requests, responses, members, nextCursor, userIds,
                   details, users, errors, existingUsers, mergedUsers, sheet0,
                   reads, run, harnessVars>>

\* main() is run again, on the sheet the earlier runs left
RunAgain ==
    /\ pc \in {"Done", "Failed"}
    /\ run < MaxRuns
    /\ run' = run + 1
    /\ pc' = "Init"
    /\ error' = NoError
    /\ requests' = <<>> /\ responses' = <<>> /\ members' = <<>>
    /\ nextCursor' = Undefined
    /\ userIds' = <<>> /\ details' = <<>> /\ users' = <<>> /\ errors' = <<>>
    /\ existingUsers' = <<>> /\ mergedUsers' = <<>> /\ finalUsers' = <<>>
    /\ sheet0' = sheet
    /\ reads' = 0 /\ clears' = 0
    /\ prev' = [done |-> pc = "Done", users |-> users]
    /\ UNCHANGED <<properties, sheet, completed, slackUser, parsed, usersArg,
                   readBack, storeError, dataArg, shapeError, sheetWas, spc>>

Next ==
    \/ CheckProperties
    \/ ListPage
    \/ ReturnMembers
    \/ FetchUser
    \/ ReadExisting
    \/ Merge
    \/ WriteAndReturn
    \/ RunAgain

Spec == Init /\ [][Next]_vars

\* the steps of one run of main: every await of main resolves or rejects
\* (UrlFetchApp.fetch and the SpreadsheetApp calls return), so a run that
\* can take a step takes one. Nothing obliges main to be called again.
RunStep ==
    \/ CheckProperties
    \/ ListPage
    \/ ReturnMembers
    \/ FetchUser
    \/ ReadExisting
    \/ Merge
    \/ WriteAndReturn

SpecLive == Init /\ [][Next]_vars /\ WF_vars(RunStep)

----------------------------------------------------------------------------
(* Parser runs: parseFromSlackUser applied to every user object whose       *)
(* display name has at most MaxLen characters.                              *)

SlackUsers ==
    {SlackUserObject(U1, d) : d \in StringsUpTo(MaxLen) \cup {Undefined}}
    \cup {[defined |-> TRUE, id |-> U1, hasProfile |-> FALSE, display_name |-> Undefined],
          [defined |-> FALSE, id |-> Undefined, hasProfile |-> FALSE, display_name |-> Undefined]}

InitParse ==
    /\ PipelineIdle
    /\ sheet = <<>>
    /\ slackUser \in SlackUsers
    /\ parsed = Thrown("none")
    /\ usersArg = <<>> /\ readBack = <<>>
    /\ storeError = "none"
    /\ dataArg = <<>> /\ shapeError = "none" /\ sheetWas = <<>>
    /\ spc = "call"

Parse ==
    /\ spc = "call"
    /\ parsed' = ParseFromSlackUser(slackUser)
    /\ spc' = "returned"
    /\ UNCHANGED <<pipelineVars, sheet, slackUser, usersArg, readBack, storeError,
                   dataArg, shapeError, sheetWas>>

NextParse == Parse

SpecParse == InitParse /\ [][NextParse]_vars

----------------------------------------------------------------------------
(* Claims about the parser (checked under SpecParse).                      *)

\* the parser run has returned for a user object with a string display name
ParsedString ==
    /\ spc = "returned"
    /\ slackUser.defined /\ slackUser.hasProfile
    /\ slackUser.display_name # Undefined

\* raw is two nonempty tokens around the single separator at position k:
\* the separator is one of seps and no other character is one of excluded
TwoTokensAt(raw, k, seps, excluded) ==
    /\ 1 < k /\ k < Len(raw)
    /\ raw[k] \in seps
    /\ \A j \in (1..Len(raw)) \ {k} : raw[j] \notin excluded

ParsedAs(raw, k) ==
    /\ parsed.ok
    /\ parsed.user.userId = slackUser.id
    /\ parsed.user.name.id = SubSeq(raw, 1, k - 1)
    /\ parsed.user.name.name = SubSeq(raw, k + 1, Len(raw))

\* C8 as stated: every display name made of exactly two nonempty tokens
\* separated by whitespace (a space or a tab) parses to those two tokens.
C8_Original ==
    ParsedString =>
        \A k \in 1..Len(slackUser.display_name) :
            TwoTokensAt(slackUser.display_name, k, Whitespace, Whitespace)
                => ParsedAs(slackUser.display_name, k)

\* C8 (amended): every display name made of exactly two nonempty tokens
\* separated by one space character (U+0020), the tokens holding no other
\* space, parses successfully to those two tokens verbatim as shortId
\* (name.id) and displayName (name.name).
C8_TwoTokensParse ==
    ParsedString =>
        \A k \in 1..Len(slackUser.display_name) :
            TwoTokensAt(slackUser.display_name, k, {Space}, {Space})
                => ParsedAs(slackUser.display_name, k)

C8_Witness ==
    /\ ParsedString
    /\ slackUser.display_name = <<"a", Tab, Space, "b">>
    /\ parsed.ok
    /\ parsed.user.name = [id |-> <<"a", Tab>>, name |-> <<"b">>]

NumSpaces(raw) == Cardinality({i \in 1..Len(raw) : raw[i] = Space})

\* the single-space split of raw has a number of tokens other than two, or
\* an empty token
Malformed(raw) ==
    \/ NumSpaces(raw) # 1
    \/ raw[1] = Space
    \/ raw[Len(raw)] = Space

FormatErrors == {"displayName is not found", "Invalid display name format"}

\* C9: every display name whose split on single spaces gives one token,
\* three or more tokens, or an empty token (leading, trailing or doubled
\* space) makes parse fail with a format error and produce no user.
C9_MalformedFails ==
    (ParsedString /\ Malformed(slackUser.display_name)) =>
        /\ ~parsed.ok
        /\ parsed.error \in FormatErrors
        /\ parsed.user = NoUser

C9_Witness ==
    /\ ParsedString
    /\ slackUser.display_name = <<"a", Space, "b", Space>>
    /\ ~parsed.ok
    /\ parsed.error = "Invalid display name format"

----------------------------------------------------------------------------
(* Claims about the pipeline (checked under Spec).                         *)

\* the data rows of a sheet: all rows but the header
DataRows(sh) == IF Len(sh) <= 1 THEN <<>> ELSE SubSeq(sh, 2, Len(sh))

\* a row that holds a Member: three nonempty cells
IsMemberRow(r) == Len(r) = 3 /\ \A c \in 1..3 : ~Falsy(r[c])

\* the identifiers of the users parsed in this run
NewIds == {users[i].userId : i \in 1..Len(users)}

HasRow(sh, r) == \E j \in 1..Len(DataRows(sh)) : DataRows(sh)[j] = r

\* C1 as stated: after a run that reached Done, every Member row the sheet
\* held before the run whose identifier was not parsed in the run is still
\* in the sheet, whatever the sheet held.
C1_Original ==
    pc = "Done" =>
        \A i \in 1..Len(DataRows(sheet0)) :
            LET r == DataRows(sheet0)[i]
            IN  (IsMemberRow(r) /\ r[1] \notin NewIds) => HasRow(sheet, r)

\* C1 (amended): after a run that reached Done, every Member row the sheet
\* held before the run that was the last row of its memberId, and whose
\* memberId was not parsed in the run, is still in the sheet with the same
\* memberId, shortId and displayName.
C1_NoDataLoss ==
    pc = "Done" =>
        \A i \in 1..Len(DataRows(sheet0)) :
            LET r == DataRows(sheet0)[i]
            IN  (/\ IsMemberRow(r)
                 /\ r[1] \notin NewIds
                 /\ \A j \in (i + 1)..Len(DataRows(sheet0)) : DataRows(sheet0)[j][1] # r[1])
                => HasRow(sheet, r)

C1_Witness ==
    /\ pc = "Done"
    /\ sheet0 = <<HeaderRow, <<U1, A, B>>>>
    /\ users = <<NewUser(U2, B, A)>>
    /\ sheet = <<HeaderRow, <<U1, A, B>>, <<U2, B, A>>>>

\* the last of the users parsed in this run with identifier id
Newest(id) ==
    users[CHOOSE i \in 1..Len(users) :
            /\ users[i].userId = id
            /\ \A j \in (i + 1)..Len(users) : users[j].userId # id]

\* C2: when an identifier is both in the rows read from the sheet and among
\* the users parsed in the run, the merged list holds exactly one entry for
\* it, equal to the version parsed last, and so does the sheet after the
\* write.
C2_OverwriteConsistent ==
    pc \in {"Writing", "Done"} =>
        \A id \in NewIds \cap {existingUsers[i].userId : i \in 1..Len(existingUsers)} :
            /\ Cardinality({i \in 1..Len(mergedUsers) : mergedUsers[i].userId = id}) = 1
            /\ \A i \in 1..Len(mergedUsers) :
                mergedUsers[i].userId = id => mergedUsers[i] = Newest(id)
            /\ pc = "Done" =>
                /\ Cardinality({j \in 1..Len(DataRows(sheet)) : DataRows(sheet)[j][1] = id}) = 1
                /\ HasRow(sheet, <<id, Newest(id).name.id, Newest(id).name.name>>)

C2_Witness ==
    /\ pc = "Done"
    /\ sheet0 = <<HeaderRow, <<U1, A, B>>>>
    /\ users = <<NewUser(U1, B, A)>>
    /\ mergedUsers = <<NewUser(U1, B, A)>>
    /\ sheet = <<HeaderRow, <<U1, B, A>>>>

\* C3: once a run has completed, the sheet holds at most one data row per
\* memberId, whatever the listings returned and whatever the sheet held
\* before the first run.
C3_KeyUniqueness ==
    completed > 0 =>
        \A i, j \in 1..Len(DataRows(sheet)) :
            DataRows(sheet)[i][1] = DataRows(sheet)[j][1] => i = j

C3_Witness ==
    /\ pc = "Done"
    /\ sheet0 = <<HeaderRow, <<U1, A, B>>, <<U1, B, A>>>>
    /\ userIds = <<U2, U2>>
    /\ Len(users) = 2
    /\ Len(DataRows(sheet)) = 2

\* a users.info response whose user parses: it succeeded and the display
\* name is two nonempty tokens around a single space
Succeeded(d) ==
    /\ d.ok
    /\ \E k \in 1..Len(d.user.display_name) :
        TwoTokensAt(d.user.display_name, k, {Space}, {Space})

MemberOf(d) ==
    LET raw == d.user.display_name
        k == CHOOSE k \in 1..Len(raw) : TwoTokensAt(raw, k, {Space}, {Space})
    IN  NewUser(d.userId, SubSeq(raw, 1, k - 1), SubSeq(raw, k + 1, Len(raw)))

RECURSIVE ExpectedUsers(_)
ExpectedUsers(ds) ==
    IF ds = <<>> THEN <<>>
    ELSE IF Succeeded(Head(ds)) THEN <<MemberOf(Head(ds))>> \o ExpectedUsers(Tail(ds))
         ELSE ExpectedUsers(Tail(ds))

RECURSIVE ExpectedFailures(_)
ExpectedFailures(ds) ==
    IF ds = <<>> THEN <<>>
    ELSE IF Succeeded(Head(ds)) THEN ExpectedFailures(Tail(ds))
         ELSE <<Head(ds).userId>> \o ExpectedFailures(Tail(ds))

\* C4: a failed detail fetch or a failed parse of one identifier is recorded
\* for that identifier only, the loop goes on to every later identifier,
\* the result holds exactly the Members of the identifiers that fetched and
\* parsed, in listing order, and the run does not fail because of them.
C4_PartialFailureContainment ==
    /\ \A i \in 1..Len(details) : details[i].userId = userIds[i]
    /\ users = ExpectedUsers(details)
    /\ [i \in 1..Len(errors) |-> errors[i].userId] = ExpectedFailures(details)
    /\ pc \in {"Merging", "Writing", "Done"} => Len(details) = Len(userIds)
    /\ pc = "Failed" => details = <<>>

C4_Witness ==
    /\ pc = "Merging"
    /\ userIds = <<U1, U2>>
    /\ ~details[1].ok
    /\ details[2].ok
    /\ users = <<NewUser(U2, A, B)>>
    /\ Len(errors) = 1 /\ errors[1].userId = U1

RECURSIVE Flatten(_)
\* the identifiers of all pages, in the order returned
Flatten(rs) == IF rs = <<>> THEN <<>> ELSE Head(rs).members \o Flatten(Tail(rs))

\* C5: the first request carries no cursor, every later request carries the
\* cursor of the response before it, requests go on exactly until a
\* response carries no cursor, none is issued after it, and the
\* identifiers returned are those of all pages in order (an empty single
\* page gives the empty sequence).
C5_Pagination ==
    /\ Len(requests) = Len(responses)
    /\ \A i \in 1..Len(requests) :
        IF i = 1 THEN requests[i] = Undefined
        ELSE /\ responses[i - 1].ok
             /\ ~Falsy(responses[i - 1].next_cursor)
             /\ requests[i] = responses[i - 1].next_cursor
    /\ (pc = "Listing" /\ responses # <<>>) =>
        ~Falsy(responses[Len(responses)].next_cursor)
    /\ pc = "Listed" =>
        /\ responses # <<>>
        /\ responses[Len(responses)].ok
        /\ Falsy(responses[Len(responses)].next_cursor)
        /\ members = Flatten(responses)
    /\ pc \in {"Fetching", "Merging", "Writing", "Done"} =>
        /\ userIds = members
        /\ requests = <<>>

C5_Witness ==
    /\ pc = "Listed"
    /\ requests = <<Undefined, Cursor(1), Cursor(2)>>
    /\ responses[1].members = <<U1>>
    /\ responses[2].members = <<>>
    /\ responses[3].members = <<U2>>
    /\ members = <<U1, U2>>

\* the run has touched neither the source nor the sheet
Untouched ==
    /\ requests = <<>> /\ responses = <<>> /\ details = <<>>
    /\ reads = 0 /\ clears = 0
    /\ sheet = sheet0

Missing(prop) == properties[prop] = Null \/ properties[prop] = Empty

\* C6: when a required property is missing or empty the run fails at once
\* with an error naming the first missing one in the order credential,
\* scope, store; no request is made and the sheet is neither read nor
\* changed.
C6_ConfigFailFast ==
    \A prop \in {"SLACK_API_TOKEN", "SLACK_CHANNEL_ID", "SPREAD_SHEET_ID"} :
        (/\ Missing(prop)
         /\ prop = "SLACK_CHANNEL_ID" => ~Missing("SLACK_API_TOKEN")
         /\ prop = "SPREAD_SHEET_ID" =>
                ~Missing("SLACK_API_TOKEN") /\ ~Missing("SLACK_CHANNEL_ID"))
        => /\ Untouched
           /\ pc \in {"Init", "Failed"}
           /\ pc = "Failed" => error = ConfigError(prop)

C6_Witness ==
    /\ pc = "Failed"
    /\ ~Missing("SLACK_API_TOKEN")
    /\ properties["SLACK_CHANNEL_ID"] = Empty
    /\ properties["SPREAD_SHEET_ID"] = Null
    /\ error = ConfigError("SLACK_CHANNEL_ID")
    /\ sheet = <<HeaderRow, <<U1, A, B>>>>

\* C7: when a page request of the listing fails, also after earlier pages
\* succeeded, the run is Failed with that error, no detail is fetched, the
\* sheet is neither read, merged into nor written, and it holds what it
\* held before the run.
C7_ListingFailureFatal ==
    (responses # <<>> /\ ~responses[Len(responses)].ok) =>
        /\ pc = "Failed"
        /\ error = SlackError
        /\ details = <<>> /\ users = <<>> /\ errors = <<>>
        /\ reads = 0 /\ clears = 0
        /\ existingUsers = <<>> /\ mergedUsers = <<>>
        /\ sheet = sheet0

C7_Witness ==
    /\ pc = "Failed"
    /\ Len(responses) = 2
    /\ responses[1].ok /\ responses[1].members = <<U1>>
    /\ ~responses[2].ok
    /\ sheet = <<HeaderRow, <<U1, A, B>>>>

\* the Members a sheet holds: the set of its data rows
RowSet(sh) == {DataRows(sh)[i] : i \in 1..Len(DataRows(sh))}

\* C15: the merged list merged with itself is the merged list again, no
\* entry twice; and a run that completes after a completed run, having
\* parsed the users that run parsed, leaves in the sheet the set of data
\* rows the sheet held after that run.
C15_MergeIdempotent ==
    /\ pc \in {"Writing", "Done"} =>
        /\ MergeUsers(mergedUsers, mergedUsers) = mergedUsers
        /\ \A i, j \in 1..Len(mergedUsers) :
            mergedUsers[i].userId = mergedUsers[j].userId => i = j
    /\ (pc = "Done" /\ prev.done /\ users = prev.users) =>
        RowSet(sheet) = RowSet(sheet0)

C15_Witness ==
    /\ pc = "Done"
    /\ run = 2
    /\ prev = [done |-> TRUE, users |-> <<NewUser(U1, A, B), NewUser(U2, B, A)>>]
    /\ users = prev.users
    /\ mergedUsers = users
    /\ sheet0 = <<HeaderRow, <<U1, A, B>>, <<U2, B, A>>>>
    /\ sheet = sheet0

Ended == pc \in {"Done", "Failed"}

\* C16: every run ends: when every call returns and the listing ends
\* within MaxPages pages, a run that has started reaches Done or Failed; it
\* stays forever in none of the states before them.
C16_RunTerminates == ~Ended ~> Ended

C16_Witness ==
    /\ pc = "Done"
    /\ run = 2
    /\ members = <<U1, U2>>
    /\ Len(details) = 2
    /\ details[1].ok /\ ~details[2].ok
    /\ reads = 1 /\ clears = 1
    /\ sheet = <<HeaderRow, <<U1, A, B>>>>

----------------------------------------------------------------------------
(* Claims about the store (checked under SpecStore).                       *)

\* C10: writeUsersToSheet followed by readUsersFromSheet gives back the
\* same set of Members, whatever their order and whatever the sheet held,
\* and the empty collection reads back as the empty sequence.
C10_RoundTrip ==
    (spc \in {"done", "failed"} /\ \A i \in 1..Len(usersArg) : ~InvalidUser(usersArg[i])) =>
        /\ spc = "done"
        /\ {readBack[i] : i \in 1..Len(readBack)} = {usersArg[i] : i \in 1..Len(usersArg)}
        /\ Len(readBack) = Len(usersArg)
        /\ usersArg = <<>> => readBack = <<>>

C10_Witness ==
    /\ spc = "done"
    /\ usersArg = <<NewUser(U2, B, A), NewUser(U1, A, B)>>
    /\ readBack = usersArg
    /\ sheet = <<HeaderRow, <<U2, B, A>>, <<U1, A, B>>>>

\* a Member with all three fields
HasAllFields(u) ==
    /\ u.userId \notin {Empty, Undefined, Null}
    /\ u.name.id \notin {Empty, Undefined, Null}
    /\ u.name.name \notin {Empty, Undefined, Null}

\* C14: writeUsersToSheet skips every Member lacking a memberId, a shortId
\* or a displayName without failing: afterwards the sheet holds the header
\* row and one row per Member of the input that has all three fields, in
\* input order, and no error was raised.
C14_SkipInvalid ==
    spc \in {"read", "done", "failed"} =>
        LET v == SelectSeq(usersArg, HasAllFields)
        IN  /\ spc # "failed"
            /\ storeError = "none"
            /\ sheet = <<HeaderRow>> \o
                    [i \in 1..Len(v) |-> <<v[i].userId, v[i].name.id, v[i].name.name>>]

C14_Witness ==
    /\ spc = "read"
    /\ usersArg = <<NewUser(U1, A, Undefined), NewUser(U2, A, B)>>
    /\ storeError = "none"
    /\ sheet = <<HeaderRow, <<U2, A, B>>>>

----------------------------------------------------------------------------
(* Claims about validateData and writeMapToSheet (checked under SpecData). *)

\* some element of data is not a row, or some row is not as long as the
\* first
Misshapen(data) ==
    \/ \E i \in 1..Len(data) : ~data[i].isArray
    \/ \E i \in 1..Len(data) : Len(data[i].cells) # Len(data[1].cells)

ShapeErrors == {"Data must be a 2D array", "All rows must have the same length"}

\* C11: validateData fails, with a shape error, exactly when some element
\* of the data is not a row or some row's length differs from the first
\* row's; the empty sequence and a single row pass.
C11_ShapeValidation ==
    spc # "validate" =>
        IF Misshapen(dataArg) THEN shapeError \in ShapeErrors ELSE shapeError = "none"

\* C12: writeMapToSheet of the empty sequence leaves the sheet without rows
\* and returns without error.
C12_EmptyWriteClears ==
    (spc \in {"written", "failed"} /\ dataArg = <<>>) =>
        /\ spc = "written"
        /\ storeError = "none"
        /\ sheet = <<>>

\* C13: writeMapToSheet validates before it changes the sheet: when
\* validateData fails the sheet holds what it held before the call, and
\* when it passes the sheet holds exactly the rows of the data afterwards,
\* none of the earlier rows remaining.
C13_ValidateBeforeMutate ==
    spc \in {"written", "failed"} =>
        IF shapeError # "none"
        THEN spc = "failed" /\ sheet = sheetWas
        ELSE spc = "written" /\ sheet = Cells(dataArg)

C13_Witness ==
    /\ spc = "written"
    /\ sheetWas = <<HeaderRow, <<U1, A, B>>, <<U2, A, B>>>>
    /\ dataArg = <<Row(<<A, B>>)>>
    /\ sheet = <<<<A, B>>>>

----------------------------------------------------------------------------
(* Claims about what a run returns and how it uses the sheet (checked      *)
(* under Spec).                                                            *)

\* the row that holds the entry u
MemberRow(u) == <<u.userId, u.name.id, u.name.name>>

\* C17 as stated: after a run that reached Done, every entry of the list
\* main returns has its row in the sheet and every data row of the sheet is
\* the row of a returned entry.
C17_Original ==
    pc = "Done" =>
        {MemberRow(finalUsers[i]) : i \in 1..Len(finalUsers)} = RowSet(sheet)

\* C17 (amended): after a run that reached Done, the data rows of the sheet
\* are the rows of the returned entries that have a memberId, a shortId and
\* a displayName, in the order of the returned list; a returned entry that
\* lacks one of them (read from a stored row with an empty cell) has no row.
C17_ReturnedIsStored ==
    pc = "Done" =>
        LET v == SelectSeq(finalUsers, HasAllFields)
        IN  /\ DataRows(sheet) = [i \in 1..Len(v) |-> MemberRow(v[i])]
            /\ \A i \in 1..Len(finalUsers) :
                ~HasAllFields(finalUsers[i]) => ~HasRow(sheet, MemberRow(finalUsers[i]))

C17_Witness ==
    /\ pc = "Done"
    /\ sheet0 = <<HeaderRow, <<U2, Empty, B>>>>
    /\ users = <<NewUser(U1, A, B)>>
    /\ finalUsers = <<NewUser(U2, Empty, B), NewUser(U1, A, B)>>
    /\ sheet = <<HeaderRow, <<U1, A, B>>>>

\* the states of a run before its write
BeforeWrite == pc \in {"Init", "Listing", "Listed", "Fetching", "Merging", "Writing"}

\* C18: within a run the sheet is read only once the loop over userIds has
\* handled every identifier, it is cleared only after that read and at most
\* once, and in every state of the run before the write it holds what it
\* held when the run started.
C18_StoreAccessOrder ==
    /\ reads <= 1 /\ clears <= 1
    /\ reads = 1 =>
        /\ Len(details) = Len(userIds)
        /\ pc \in {"Merging", "Writing", "Done", "Failed"}
    /\ clears = 1 => reads = 1 /\ pc \in {"Done", "Failed"}
    /\ BeforeWrite => clears = 0 /\ sheet = sheet0
    /\ clears = 0 => sheet = sheet0

C18_Witness ==
    /\ pc = "Done"
    /\ userIds = <<U1, U2>>
    /\ Len(details) = 2
    /\ reads = 1 /\ clears = 1
    /\ sheet0 = <<HeaderRow, <<U1, A, B>>, <<U1, B, A>>>>
    /\ sheet = <<HeaderRow, <<U1, B, A>>, <<U2, A, B>>>>

\* C19: the rows writeUsersToSheet hands to writeMapToSheet in a run are
\* the header row followed by rows of three cells each, for every sheet and
\* every list of parsed users, so validateData passes in every run and no
\* run ends in Failed with an error of the sheet.
C19_RowsRectangular ==
    /\ pc = "Writing" =>
        LET data == UsersData(mergedUsers)
        IN  /\ Len(data) >= 1
            /\ data[1] = Row(HeaderRow)
            /\ \A i \in 1..Len(data) : data[i].isArray /\ Len(data[i].cells) = 3
            /\ ValidateData(data) = "none"
    /\ error.kind # "sheet"
    /\ pc = "Failed" => clears = 0

C19_Witness ==
    /\ pc = "Writing"
    /\ existingUsers = <<NewUser(U2, Empty, B)>>
    /\ users = <<NewUser(U1, A, B)>>
    /\ UsersData(mergedUsers) = <<Row(HeaderRow), Row(<<U1, A, B>>)>>

====
